---- MODULE Spec2Model ----
(***************************************************************************)
(* State-machine model of privacyidea/lib/tokens/ocratoken.py              *)
(* (OcraTokenClass): token update, challenge issuance and response         *)
(* verification.                                                           *)
(*                                                                         *)
(* Python values are modelled by strings; None is the string NONE.  A      *)
(* digest and an OCRA response are symbolic strings built from their       *)
(* inputs, so that different inputs give different values.                 *)
(***************************************************************************)
EXTENDS Integers, Sequences, FiniteSets, TLC

VARIABLES token, store, config, last

vars == <<token, store, config, last>>

\* Python's None.
NONE == "None"

\* ocratoken.py line 46
OCRA_DEFAULT_SUITE == "OCRA-1:HOTP-SHA1-8:QH40"

(***************************************************************************)
(* Bounds of the model.                                                    *)
(***************************************************************************)
\* rows the challenge store may hold
MaxChallenges == 1

\* characters the fourth column of a csv line may hold
MaxColumnLen == 3

(***************************************************************************)
(* Input domains.                                                          *)
(***************************************************************************)
Users == {"alice", "bob"}

\* user.realm of a user object
Realm(u) == IF u = "alice" THEN "realmA" ELSE "realmB"

\* descriptors a request may carry: one well-formed, one malformed
ParamSuites == {"OCRA-1:HOTP-SHA256-6:QN08", "OCRA-1:HOTP-SHA1-8"}

\* challenges a caller may supply ("" is falsy, like a missing one)
CallerChallenges == {"12345678"}

\* the alphabet get_alphanum_str draws from (two of its characters)
Alphanum == {"x", "y"}

\* addrandomchallenge values a request may carry (0 is falsy, like a missing one)
RandomLengths == {0, 1}

\* hashchallenge values a request may carry
HashOptions == {"sha256", "SHA512", "md5"}

\* a transaction id a caller may pass
CallerTransactions == {"0815"}

\* counter and window values a caller of check_otp may pass (Python integers,
\* written as strings like the other values)
Counters == {"0", "1"}

Windows == {"0", "10"}

\* characters of a csv column: two whitespace characters and one other; a
\* column is a sequence of characters
Chars == {" ", "\t", "Q"}

RECURSIVE ColumnsOfLen(_)
ColumnsOfLen(n) ==
    IF n = 0 THEN {<<>>}
    ELSE {Append(c, ch) : c \in ColumnsOfLen(n - 1), ch \in Chars}

\* the values the fourth column of a csv line may have
FourthColumns == UNION {ColumnsOfLen(n) : n \in 0 .. MaxColumnLen}

\* the csv lines l an import may read: three to five columns
CsvLines ==
    {<<<<"s">>, <<"k">>, <<"o">>>>}
        \cup {<<<<"s">>, <<"k">>, <<"o">>, c>> : c \in FourthColumns}
        \cup {<<<<"s">>, <<"k">>, <<"o">>, c, <<"5">>>> : c \in FourthColumns}

\* the keys the base importer may set
BaseKeys == {"otplen", "hashlib", "ocrasuite"}

(***************************************************************************)
(* External collaborators (not part of ocratoken.py).                      *)
(***************************************************************************)

\* OCRASuite(ocrasuite): TRUE iff the constructor accepts the descriptor,
\* i.e. it is in SuiteEngine's language; None and malformed strings are not.
OCRASuite(ocrasuite) ==
    ocrasuite \in {OCRA_DEFAULT_SUITE, "OCRA-1:HOTP-SHA256-6:QN08"}

\* OCRASuite.create_challenge(): the challenges the suite may generate for
\* its question format (a random choice among them)
OCRASuite_create_challenge(ocrasuite) ==
    IF ocrasuite = OCRA_DEFAULT_SUITE THEN {"a1b2c3", "d4e5f6"}
                                      ELSE {"11112222", "33334444"}

\* the response the suite computes from descriptor, secret and question
OCRA_response(ocrasuite, security_object, question) ==
    "otp(" \o ocrasuite \o "," \o security_object \o "," \o question \o ")"

\* OCRA.check_response(passw, question): 1 on a match, -1 otherwise
OCRA_check_response(ocrasuite, security_object, passw, question) ==
    IF passw = OCRA_response(ocrasuite, security_object, question) THEN 1 ELSE -1

\* getParam(param, key, default=...)
getParam(param, key, default) ==
    IF param[key] # NONE THEN param[key] ELSE default

\* get_user_from_param(param, optional)
get_user_from_param(param) == param["user"]

\* get_from_config(key, default)
get_from_config(cfg, key, default) ==
    IF cfg[key] # NONE THEN cfg[key] ELSE default

\* int() of a configured value
int(s) ==
    CASE s = "60"  -> 60
      [] s = "30"  -> 30
      [] s = "120" -> 120
      [] OTHER     -> 0

\* str.lower() on the hashchallenge values
lower(s) == IF s = "SHA512" THEN "sha512" ELSE s

\* str.capitalize() on the token type
capitalize(s) == IF s = "ocra" THEN "Ocra" ELSE s

\* hexlify_and_unicode(hashlib.<alg>(to_bytes(challenge)).digest())
hexdigest(alg, challenge) == alg \o "(" \o challenge \o ")"

\* TokenClass.get_tokeninfo(key)
get_tokeninfo(tok, key) == tok.tokeninfo[key]

\* TokenClass.add_tokeninfo(key, value)
add_tokeninfo(tok, key, value) ==
    [tok EXCEPT !.tokeninfo = [tok.tokeninfo EXCEPT ![key] = value]]

\* TokenClass.add_user(user): binds the token to the user; a token that is
\* bound to another user is not rebound, the call fails
add_user(tok, user) ==
    IF tok.user # NONE /\ tok.user # user
    THEN [raised |-> TRUE, token |-> tok]
    ELSE [raised |-> FALSE, token |-> [tok EXCEPT !.user = user]]

\* TokenClass.set_realms(realms)
set_realms(tok, realms) == [tok EXCEPT !.realms = realms]

\* TokenClass.update(param): base persistence; the token row is saved and
\* gets its identifier
TokenClass_update(tok, param) == [tok EXCEPT !.id = 1]

\* create_img(challenge)
create_img(challenge) == "img(" \o challenge \o ")"

\* get_alphanum_str(n): the strings of n alphanumeric characters it may return
RECURSIVE get_alphanum_str(_)
get_alphanum_str(n) ==
    IF n = 0 THEN {""}
    ELSE {s \o c : s \in get_alphanum_str(n - 1), c \in Alphanum}

\* Challenge(serial, transaction_id=..., challenge=..., validitytime=...):
\* the store allocates a transaction id (fresh) when it is given none
Challenge(serial, transaction_id, challenge, validitytime, fresh) ==
    [serial         |-> serial,
     transaction_id |-> IF transaction_id # NONE THEN transaction_id ELSE fresh,
     challenge      |-> challenge,
     validitytime   |-> validitytime]

\* Challenge.save(): one more row in the store
Challenge_save(rows, db_challenge) == Append(rows, db_challenge)

\* the transaction id the store allocates next
create_transaction_id(rows) == "tx" \o ToString(Len(rows) + 1)

\* TokenClass.get_import_csv(l): the generic column mapping; keys are the
\* keys it sets for this line
TokenClass_get_import_csv(l, keys) ==
    [k \in keys |-> IF k = "otplen" THEN IF Len(l) >= 4 THEN l[4] ELSE <<"6">>
                    ELSE IF k = "hashlib" THEN <<"s", "h", "a", "1">>
                    ELSE <<"d">>]

\* the characters str.strip() removes
Whitespace == {" ", "\t"}

\* str.lstrip(), str.rstrip() and str.strip() on a sequence of characters
RECURSIVE lstrip(_)
lstrip(s) ==
    IF s # <<>> /\ Head(s) \in Whitespace THEN lstrip(Tail(s)) ELSE s

RECURSIVE rstrip(_)
rstrip(s) ==
    IF s # <<>> /\ s[Len(s)] \in Whitespace
    THEN rstrip(SubSeq(s, 1, Len(s) - 1)) ELSE s

strip(s) == rstrip(lstrip(s))

\* del d[key] and d[key] = value on a dict
dict_del(d, key) == [k \in DOMAIN d \ {key} |-> d[k]]

dict_set(d, key, value) ==
    [k \in DOMAIN d \cup {key} |-> IF k = key THEN value ELSE d[k]]

\* Python truthiness of an optional string
truthy(s) == s # NONE /\ s # ""

\* dict.get(key, default) on an optional string
get(value, default) == IF value # NONE THEN value ELSE default

(***************************************************************************)
(* OcraTokenClass (ocratoken.py).                                          *)
(***************************************************************************)

\* one call made by a handler, with the token's identifier when it is made
Call(name, tok) == [call |-> name, id |-> tok.id]

\* OcraTokenClass.__init__: a token object of type "ocra" whose database
\* row has a secret key and no identifier yet
NewToken ==
    [id        |-> 0,
     serial    |-> "OCRA0001",
     type      |-> "ocra",
     user      |-> NONE,
     realms    |-> {},
     tokeninfo |-> [ocrasuite |-> NONE],
     otpkey    |-> "3132333435363738"]

\* update, lines 140-142: bind the user the request carries
update_bind_overwrite(tok, param) ==
    LET user_object == get_user_from_param(param)
    IN  IF user_object # NONE
        THEN [raised |-> FALSE, token |-> [tok EXCEPT !.user = user_object],
              calls |-> <<Call("add_user", tok)>>]
        ELSE [raised |-> FALSE, token |-> tok, calls |-> <<>>]

update_bind(tok, param) ==
    LET user_object == get_user_from_param(param)
    IN  IF user_object # NONE
        THEN LET bound == add_user(tok, user_object)
             IN  [raised |-> bound.raised, token |-> bound.token,
                  calls |-> <<Call("add_user", tok)>>]
        ELSE [raised |-> FALSE, token |-> tok, calls |-> <<>>]

\* update, lines 144-146: validate the descriptor, then store it
update_suite_keep_existing(tok, param) ==
    LET ocrasuite == getParam(param, "ocrasuite",
                              get(get_tokeninfo(tok, "ocrasuite"), OCRA_DEFAULT_SUITE))
    IN  IF ~OCRASuite(ocrasuite)
        THEN [raised |-> TRUE, token |-> tok, calls |-> <<Call("OCRASuite", tok)>>]
        ELSE [raised |-> FALSE,
              token |-> add_tokeninfo(tok, "ocrasuite", ocrasuite),
              calls |-> <<Call("OCRASuite", tok), Call("add_tokeninfo", tok)>>]

update_suite_unchecked(tok, param) ==
    LET ocrasuite == getParam(param, "ocrasuite", OCRA_DEFAULT_SUITE)
    IN  [raised |-> FALSE,
         token |-> add_tokeninfo(tok, "ocrasuite", ocrasuite),
         calls |-> <<Call("add_tokeninfo", tok)>>]

update_suite(tok, param) ==
    LET ocrasuite == getParam(param, "ocrasuite", OCRA_DEFAULT_SUITE)
    IN  IF ~OCRASuite(ocrasuite)
        THEN [raised |-> TRUE, token |-> tok, calls |-> <<Call("OCRASuite", tok)>>]
        ELSE [raised |-> FALSE,
              token |-> add_tokeninfo(tok, "ocrasuite", ocrasuite),
              calls |-> <<Call("OCRASuite", tok), Call("add_tokeninfo", tok)>>]

\* update, lines 147-152: base persistence, then the realms of the user
update_persist_realms_first(tok, param) ==
    LET user_object == get_user_from_param(param)
        t1 == IF user_object # NONE THEN set_realms(tok, {Realm(user_object)}) ELSE tok
        t2 == TokenClass_update(t1, param)
    IN  [raised |-> FALSE, token |-> t2,
         calls |-> IF user_object # NONE
                   THEN <<Call("set_realms", tok), Call("TokenClass.update", t1)>>
                   ELSE <<Call("TokenClass.update", t1)>>]

update_persist(tok, param) ==
    LET user_object == get_user_from_param(param)
        t1 == TokenClass_update(tok, param)
        t2 == IF user_object # NONE THEN set_realms(t1, {Realm(user_object)}) ELSE t1
    IN  [raised |-> FALSE, token |-> t2,
         calls |-> IF user_object # NONE
                   THEN <<Call("TokenClass.update", tok), Call("set_realms", t1)>>
                   ELSE <<Call("TokenClass.update", tok)>>]

\* OcraTokenClass.update(param): the token after the call, whether the call
\* raised, and the calls it made in order.  An exception ends the handler
\* and keeps what was done before it.
update(tok, param) ==
    LET a == update_bind(tok, param)
        b == update_suite(a.token, param)
        c == update_persist(b.token, param)
    IN  IF a.raised THEN a
        ELSE IF b.raised
        THEN [raised |-> TRUE, token |-> b.token, calls |-> a.calls \o b.calls]
        ELSE [raised |-> FALSE, token |-> c.token,
              calls |-> a.calls \o b.calls \o c.calls]

\* create_challenge, lines 200-203: the validity time
challenge_validity_global_first(tok, cfg) ==
    LET tokentype == lower(tok.type)
        lookup_for == capitalize(tokentype) \o "ChallengeValidityTime"
        validity == int(get_from_config(cfg, lookup_for, "120"))
    IN  IF cfg["DefaultChallengeValidityTime"] # NONE
        THEN int(cfg["DefaultChallengeValidityTime"]) ELSE validity

challenge_validity(tok, cfg) ==
    LET validity == int(get_from_config(cfg, "DefaultChallengeValidityTime", "120"))
        tokentype == lower(tok.type)
        lookup_for == capitalize(tokentype) \o "ChallengeValidityTime"
    IN  IF cfg[lookup_for] # NONE THEN int(cfg[lookup_for]) ELSE validity

\* create_challenge, line 206: the descriptor of the token, or the default
challenge_suite(tok) ==
    IF truthy(get_tokeninfo(tok, "ocrasuite"))
    THEN get_tokeninfo(tok, "ocrasuite") ELSE OCRA_DEFAULT_SUITE

\* create_challenge, lines 218-221: the supplied challenge and its random suffix
challenge_cleartext_no_suffix(options, suffix) == options.challenge

challenge_cleartext(options, suffix) ==
    IF options.addrandomchallenge # 0
    THEN options.challenge \o suffix ELSE options.challenge

\* create_challenge, lines 223-228: the supplied challenge, hashed on request
challenge_hashed_never(options, cleartext) == cleartext

challenge_hashed_case_sensitive(options, cleartext) ==
    IF get(options.hashchallenge, "") = "sha256"
    THEN hexdigest("sha256", cleartext)
    ELSE IF get(options.hashchallenge, "") = "sha512"
    THEN hexdigest("sha512", cleartext)
    ELSE IF truthy(options.hashchallenge)
    THEN hexdigest("sha1", cleartext)
    ELSE cleartext

challenge_hashed(options, cleartext) ==
    IF lower(get(options.hashchallenge, "")) = "sha256"
    THEN hexdigest("sha256", cleartext)
    ELSE IF lower(get(options.hashchallenge, "")) = "sha512"
    THEN hexdigest("sha512", cleartext)
    ELSE IF truthy(options.hashchallenge)
    THEN hexdigest("sha1", cleartext)
    ELSE cleartext

\* create_challenge, lines 197, 221-222 and 240: the attributes of the reply; a
\* key the code does not set is NONE
challenge_attributes_after_hash(supplied, cleartext, challenge) ==
    [original_challenge |-> IF supplied THEN challenge ELSE NONE,
     qrcode    |-> IF supplied THEN create_img(challenge) ELSE NONE,
     challenge |-> challenge]

challenge_attributes(supplied, cleartext, challenge) ==
    [original_challenge |-> IF supplied THEN cleartext ELSE NONE,
     qrcode    |-> IF supplied THEN create_img(cleartext) ELSE NONE,
     challenge |-> challenge]

\* create_challenge, lines 232-238: the Challenge row and its save
challenge_persist_twice(tok, rows, transactionid, challenge, validity) ==
    LET db_challenge == Challenge(tok.serial, NONE, challenge, validity,
                                  create_transaction_id(rows))
    IN  [db_challenge |-> db_challenge,
         store |-> Challenge_save(Challenge_save(rows, db_challenge), db_challenge)]

challenge_persist(tok, rows, transactionid, challenge, validity) ==
    LET db_challenge == Challenge(tok.serial, NONE, challenge, validity,
                                  create_transaction_id(rows))
    IN  [db_challenge |-> db_challenge,
         store |-> Challenge_save(rows, db_challenge)]

\* OcraTokenClass.create_challenge(transactionid, options): generated and
\* suffix are the random draws of OCRASuite.create_challenge and
\* get_alphanum_str, rows is the challenge store before the call
create_challenge(tok, cfg, rows, transactionid, options, generated, suffix) ==
    LET validity == challenge_validity(tok, cfg)
        ocrasuite == challenge_suite(tok)
        supplied == truthy(options.challenge)
        cleartext == challenge_cleartext(options, suffix)
        challenge == IF ~supplied THEN generated
                     ELSE challenge_hashed(options, cleartext)
        attributes == challenge_attributes(supplied, cleartext, challenge)
        saved == challenge_persist(tok, rows, transactionid, challenge, validity)
    IN  IF ~supplied /\ ~OCRASuite(ocrasuite)
        THEN [raised |-> TRUE, store |-> rows]
        ELSE [raised         |-> FALSE,
              store          |-> saved.store,
              success        |-> TRUE,
              message        |-> "Please answer the challenge",
              transaction_id |-> saved.db_challenge.transaction_id,
              attributes     |-> attributes]

\* OcraTokenClass.verify_response(passw, challenge): the constructor of OCRA
\* raises on a descriptor it cannot parse
verify_response_raises_on_mismatch(tok, passw, challenge) ==
    LET ocrasuite == get_tokeninfo(tok, "ocrasuite")
        r == OCRA_check_response(ocrasuite, tok.otpkey, passw, challenge)
    IN  IF ~OCRASuite(ocrasuite) \/ r < 0
        THEN [raised |-> TRUE, question |-> NONE, r |-> -1]
        ELSE [raised |-> FALSE, question |-> challenge, r |-> r]

verify_response(tok, passw, challenge) ==
    LET ocrasuite == get_tokeninfo(tok, "ocrasuite")
        security_object == tok.otpkey
    IN  IF ~OCRASuite(ocrasuite)
        THEN [raised |-> TRUE, question |-> NONE, r |-> -1]
        ELSE [raised   |-> FALSE,
              question |-> challenge,
              r |-> OCRA_check_response(ocrasuite, security_object, passw, challenge)]

\* OcraTokenClass.check_otp(otpval, counter, window, options)
check_otp_rehash(tok, otpval, counter, window, options) ==
    verify_response(tok, otpval, hexdigest("sha1", options.challenge))

check_otp_window_zero_rejects(tok, otpval, counter, window, options) ==
    IF window = "0"
    THEN [raised |-> FALSE, question |-> options.challenge, r |-> -1]
    ELSE verify_response(tok, otpval, options.challenge)

check_otp(tok, otpval, counter, window, options) ==
    verify_response(tok, otpval, options.challenge)

\* OcraTokenClass.get_import_csv(l); base is what TokenClass.get_import_csv
\* returned for l
get_import_csv_fifth_column(l, base) ==
    LET params == IF "otplen" \in DOMAIN base THEN dict_del(base, "otplen") ELSE base
    IN  IF Len(l) > 4 THEN dict_set(params, "ocrasuite", strip(l[4])) ELSE params

get_import_csv(l, base) ==
    LET params == IF "otplen" \in DOMAIN base THEN dict_del(base, "otplen") ELSE base
    IN  IF Len(l) >= 4 THEN dict_set(params, "ocrasuite", strip(l[4])) ELSE params

(***************************************************************************)
(* The state machine.                                                      *)
(***************************************************************************)

\* the configuration keys create_challenge reads, each unset or set
Configs ==
    [DefaultChallengeValidityTime : {NONE, "60"},
     OcraChallengeValidityTime    : {NONE, "30"}]

Params ==
    [user      : Users \cup {NONE},
     ocrasuite : ParamSuites \cup {NONE}]

Options ==
    [challenge          : CallerChallenges \cup {NONE},
     addrandomchallenge : RandomLengths,
     hashchallenge      : HashOptions \cup {NONE}]

\* challenge strings a verification request may carry: the persisted values
\* and the cleartexts a caller supplied
Questions ==
    {store[i].challenge : i \in DOMAIN store} \cup CallerChallenges

\* passwords a verification request may carry: the right responses to these
\* challenges, and a wrong one
Passwords ==
    {OCRA_response(challenge_suite(token), token.otpkey, q) : q \in Questions}
        \cup {"000000"}

Init ==
    /\ token = NewToken
    /\ store = <<>>
    /\ config \in Configs
    /\ last = [op |-> "init", raised |-> FALSE]

\* a request calls update(param)
Update ==
    \E param \in Params :
        LET res == update(token, param)
        IN  /\ token' = res.token
            /\ last' = [op |-> "update", raised |-> res.raised,
                        user |-> param.user, ocrasuite |-> param.ocrasuite,
                        calls |-> res.calls]
            /\ UNCHANGED <<store, config>>

\* a request calls create_challenge where issuance writes the descriptor it
\* resolved into the token's metadata
CreateChallengeStoringSuite ==
    /\ Len(store) < MaxChallenges
    /\ \E transactionid \in CallerTransactions \cup {NONE}, options \in Options :
       \E generated \in IF truthy(options.challenge) THEN {NONE}
                        ELSE OCRASuite_create_challenge(challenge_suite(token)),
          suffix \in get_alphanum_str(options.addrandomchallenge) :
        LET res == create_challenge(token, config, store, transactionid,
                                    options, generated, suffix)
        IN  /\ store' = res.store
            /\ token' = add_tokeninfo(token, "ocrasuite", challenge_suite(token))
            /\ last' = IF res.raised
                       THEN [op |-> "create_challenge", raised |-> TRUE]
                       ELSE [op |-> "create_challenge", raised |-> FALSE,
                             transactionid  |-> transactionid,
                             options        |-> options,
                             generated      |-> generated,
                             success        |-> res.success,
                             message        |-> res.message,
                             transaction_id |-> res.transaction_id,
                             attributes     |-> res.attributes]
            /\ UNCHANGED config

\* a request calls create_challenge(transactionid, options)
CreateChallenge ==
    /\ Len(store) < MaxChallenges
    /\ \E transactionid \in CallerTransactions \cup {NONE}, options \in Options :
       \E generated \in IF truthy(options.challenge) THEN {NONE}
                        ELSE OCRASuite_create_challenge(challenge_suite(token)),
          suffix \in get_alphanum_str(options.addrandomchallenge) :
        LET res == create_challenge(token, config, store, transactionid,
                                    options, generated, suffix)
        IN  /\ store' = res.store
            /\ last' = IF res.raised
                       THEN [op |-> "create_challenge", raised |-> TRUE]
                       ELSE [op |-> "create_challenge", raised |-> FALSE,
                             transactionid  |-> transactionid,
                             options        |-> options,
                             generated      |-> generated,
                             success        |-> res.success,
                             message        |-> res.message,
                             transaction_id |-> res.transaction_id,
                             attributes     |-> res.attributes]
            /\ UNCHANGED <<token, config>>

\* a request calls check_otp where a matched challenge is used up: the same
\* request right after a match is answered -1
CheckOtpConsuming ==
    \E otpval \in Passwords, challenge \in Questions :
        LET res == check_otp(token, otpval, NONE, NONE, [challenge |-> challenge])
            repeat == /\ last.op = "check_otp"
                      /\ ~last.raised
                      /\ last.r >= 0
                      /\ last.otpval = otpval
                      /\ last.challenge = challenge
        IN  /\ last' = [op |-> "check_otp", raised |-> res.raised,
                        otpval |-> otpval, challenge |-> challenge,
                        question |-> res.question,
                        r |-> IF repeat THEN -1 ELSE res.r,
                        repeat |-> repeat]
            /\ UNCHANGED <<token, store, config>>

\* a request calls check_otp(otpval, counter, window, options); repeat says
\* that the call before it was the same request and was answered with a match
CheckOtp ==
    \E otpval \in Passwords, challenge \in Questions :
        LET res == check_otp(token, otpval, NONE, NONE, [challenge |-> challenge])
        IN  /\ last' = [op |-> "check_otp", raised |-> res.raised,
                        otpval |-> otpval, challenge |-> challenge,
                        question |-> res.question, r |-> res.r,
                        repeat |-> /\ last.op = "check_otp"
                                   /\ ~last.raised
                                   /\ last.r >= 0
                                   /\ last.otpval = otpval
                                   /\ last.challenge = challenge]
            /\ UNCHANGED <<token, store, config>>

Next == Update \/ CreateChallenge \/ CheckOtp

Spec == Init /\ [][Next]_vars

\* a request calls check_otp with a counter and a window of its own
CheckOtpCounterWindow ==
    \E otpval \in Passwords, challenge \in Questions,
       counter \in Counters, window \in Windows :
        LET res == check_otp(token, otpval, counter, window, [challenge |-> challenge])
        IN  /\ last' = [op |-> "check_otp", raised |-> res.raised,
                        otpval |-> otpval, challenge |-> challenge,
                        counter |-> counter, window |-> window,
                        question |-> res.question, r |-> res.r]
            /\ UNCHANGED <<token, store, config>>

\* token updates and verification requests with any counter and window
NextVerify == Update \/ CheckOtpCounterWindow

SpecVerify == Init /\ [][NextVerify]_vars

\* an import reads one csv line: get_import_csv(l) is static and touches
\* neither the token nor the store
ImportCsv ==
    \E l \in CsvLines, keys \in SUBSET BaseKeys :
        LET base == TokenClass_get_import_csv(l, keys)
        IN  /\ last' = [op |-> "get_import_csv", raised |-> FALSE,
                        l |-> l, base |-> base,
                        params |-> get_import_csv(l, base)]
            /\ UNCHANGED <<token, store, config>>

NextImport == ImportCsv

\* an import reads no configuration: one configuration stands for them all
InitImport ==
    /\ token = NewToken
    /\ store = <<>>
    /\ config = [DefaultChallengeValidityTime |-> NONE,
                 OcraChallengeValidityTime    |-> NONE]
    /\ last = [op |-> "init", raised |-> FALSE]

SpecImport == InitImport /\ [][NextImport]_vars

(***************************************************************************)
(* Claims.                                                                 *)
(***************************************************************************)

IssuedOk == last.op = "create_challenge" /\ ~last.raised

\* the row the last create_challenge saved
LastRow == store[Len(store)]

\* the cleartext of the last issuance: the supplied challenge with its
\* suffix, or the challenge the suite generated
LastCleartext ==
    IF last.generated # NONE THEN last.generated
    ELSE last.attributes.original_challenge

HashAlgorithms == {"sha1", "sha256", "sha512"}

\* the response the token's descriptor and secret give for a challenge
TokenResponse(challenge) ==
    OCRA_response(get_tokeninfo(token, "ocrasuite"), token.otpkey, challenge)

\* C1: an update that fails leaves the token unchanged (user binding,
\* realms, ocrasuite metadata and base fields), whatever the request carried.
C1_FailedUpdateChangesNothing ==
    [][(last'.op = "update" /\ last'.raised) => token' = token]_vars

\* C2: when a transactionid is passed to create_challenge, the Challenge row
\* is saved under it and it is the id returned; the store allocates an id
\* only when none is passed.
C2_ChallengeUnderCallerTransaction ==
    (IssuedOk /\ last.transactionid # NONE)
        => /\ LastRow.transaction_id = last.transactionid
           /\ last.transaction_id = last.transactionid

\* C3 as stated: with hashchallenge set the persisted value is the hex digest
\* of the cleartext and not the cleartext, for a supplied and for a generated
\* challenge alike; without it the persisted value is the cleartext.
C3_HashOptionAlwaysHashes ==
    IssuedOk =>
        IF truthy(last.options.hashchallenge)
        THEN /\ \E alg \in HashAlgorithms :
                    LastRow.challenge = hexdigest(alg, LastCleartext)
             /\ LastRow.challenge # LastCleartext
        ELSE LastRow.challenge = LastCleartext

\* C3 amended: for a caller-supplied challenge the persisted value is the hex
\* digest of the cleartext (and not the cleartext) if hashchallenge is set and
\* the cleartext if it is not; a suite-generated challenge is persisted as it
\* is, whether or not hashchallenge is set.
C3_HashOnlySuppliedChallenge ==
    IssuedOk =>
        IF truthy(last.options.challenge)
        THEN IF truthy(last.options.hashchallenge)
             THEN /\ \E alg \in HashAlgorithms :
                         LastRow.challenge
                             = hexdigest(alg, last.attributes.original_challenge)
                  /\ LastRow.challenge # last.attributes.original_challenge
             ELSE LastRow.challenge = last.attributes.original_challenge
        ELSE /\ LastRow.challenge = last.generated
             /\ last.generated \in OCRASuite_create_challenge(challenge_suite(token))

C3_Witness ==
    /\ IssuedOk
    /\ last.options.challenge = "12345678"
    /\ last.options.hashchallenge = "sha256"
    /\ LastRow.challenge = hexdigest("sha256", "12345678")

\* the validity a Challenge row is to carry: the type-specific setting, else
\* the global one, else 120 seconds
ResolvedValidity ==
    IF config.OcraChallengeValidityTime # NONE
    THEN int(config.OcraChallengeValidityTime)
    ELSE IF config.DefaultChallengeValidityTime # NONE
    THEN int(config.DefaultChallengeValidityTime)
    ELSE 120

C5_VerifiesPersistedValue ==
    (last.op = "check_otp" /\ ~last.raised)
        => /\ last.question = last.challenge
           /\ last.r >= 0 <=> last.otpval = TokenResponse(last.challenge)

C5_Witness ==
    /\ last.op = "check_otp"
    /\ ~last.raised
    /\ \E i \in DOMAIN store :
          /\ store[i].challenge = hexdigest("sha1", "12345678")
          /\ last.challenge = store[i].challenge
    /\ last.otpval = TokenResponse(last.challenge)
    /\ last.r >= 0

\* C6: verify_response does not raise on a mismatch: it raises only when the
\* token's descriptor cannot be parsed (a token without one included), and
\* otherwise returns -1 for a password that is not the response and a value
\* >= 0 for one that is.
C6_MismatchIsNotAnError ==
    last.op = "check_otp"
        => /\ last.raised <=> ~OCRASuite(get_tokeninfo(token, "ocrasuite"))
           /\ ~last.raised =>
                IF last.otpval = TokenResponse(last.challenge)
                THEN last.r >= 0 ELSE last.r = -1

C6_Witness ==
    /\ last.op = "check_otp"
    /\ ~last.raised
    /\ last.otpval # TokenResponse(last.challenge)
    /\ last.r = -1

C8_ChallengeConsumedOnce ==
    (last.op = "check_otp" /\ last.repeat) => (last.raised \/ last.r < 0)

\* C8 amended: check_otp consumes nothing: a check_otp that directly follows a
\* check_otp answered with a value >= 0, with the same password and the same
\* challenge, is answered with a value >= 0 again.
C8_RepeatedCheckMatchesAgain ==
    (last.op = "check_otp" /\ last.repeat) => (~last.raised /\ last.r >= 0)

C8_Witness ==
    /\ last.op = "check_otp"
    /\ last.repeat
    /\ last.challenge \in {store[i].challenge : i \in DOMAIN store}

\* whether call a comes before position i in the calls of the last update
CalledBefore(a, i) == \E j \in 1 .. (i - 1) : last.calls[j].call = a

\* C9: the ocrasuite in the token's metadata is absent or well-formed in every
\* state, and update writes it only after the descriptor has been validated.
C9_StoredSuiteIsValid ==
    /\ \/ get_tokeninfo(token, "ocrasuite") = NONE
       \/ OCRASuite(get_tokeninfo(token, "ocrasuite"))
    /\ last.op = "update" =>
          \A i \in DOMAIN last.calls :
              last.calls[i].call = "add_tokeninfo" => CalledBefore("OCRASuite", i)

C9_Witness ==
    /\ last.op = "update"
    /\ last.raised
    /\ last.ocrasuite = "OCRA-1:HOTP-SHA1-8"
    /\ get_tokeninfo(token, "ocrasuite") = "OCRA-1:HOTP-SHA256-6:QN08"

\* C10: update assigns realms only after TokenClass.update has given the token
\* its identifier, and assigns none when the request carries no user.
C10_RealmsAfterPersistence ==
    last.op = "update" =>
        /\ \A i \in DOMAIN last.calls :
              last.calls[i].call = "set_realms"
                  => /\ CalledBefore("TokenClass.update", i)
                     /\ last.calls[i].id # 0
        /\ last.user = NONE =>
              \A i \in DOMAIN last.calls : last.calls[i].call # "set_realms"

C10_Witness ==
    /\ last.op = "update"
    /\ ~last.raised
    /\ last.user = "alice"
    /\ last.calls[Len(last.calls)].call = "set_realms"
    /\ token.realms = {"realmA"}

\* C11: the attributes create_challenge returns hold 'challenge', equal to the
\* persisted value; they hold 'original_challenge' and 'qrcode' iff the caller
\* supplied a challenge, and then original_challenge is the cleartext before
\* hashing (the supplied challenge and its random suffix, if any), hashed or not.
C11_AttributesOfIssuance ==
    IssuedOk =>
        /\ last.attributes.challenge = LastRow.challenge
        /\ last.attributes.original_challenge # NONE <=> truthy(last.options.challenge)
        /\ last.attributes.qrcode # NONE <=> truthy(last.options.challenge)
        /\ truthy(last.options.challenge) =>
              /\ \E s \in get_alphanum_str(last.options.addrandomchallenge) :
                    last.attributes.original_challenge = last.options.challenge \o s
              /\ last.attributes.qrcode
                    = create_img(last.attributes.original_challenge)

C11_Witness ==
    /\ IssuedOk
    /\ last.options.challenge = "12345678"
    /\ last.options.addrandomchallenge = 1
    /\ last.options.hashchallenge = "md5"
    /\ last.attributes.original_challenge = "12345678y"
    /\ last.attributes.challenge = hexdigest("sha1", "12345678y")

\* C12: the validity of the persisted Challenge is the type-specific
\* 'OcraChallengeValidityTime' if configured, otherwise the global
\* 'DefaultChallengeValidityTime' if configured, otherwise 120 seconds, for
\* each of the four combinations of the two settings.
C12_ValidityLookupOrder ==
    IssuedOk =>
        LET typed  == config.OcraChallengeValidityTime
            global == config.DefaultChallengeValidityTime
        IN  /\ (typed = "30") => LastRow.validitytime = 30
            /\ (typed = NONE /\ global = "60") => LastRow.validitytime = 60
            /\ (typed = NONE /\ global = NONE) => LastRow.validitytime = 120

C12_Witness ==
    /\ IssuedOk
    /\ config.OcraChallengeValidityTime = "30"
    /\ config.DefaultChallengeValidityTime = "60"
    /\ LastRow.validitytime = 30

\* C13 as stated: hashchallenge 'sha256' selects SHA-256, 'sha512' selects
\* SHA-512 and every other truthy value SHA-1; issuance succeeds and persists
\* the hex digest of the cleartext under the selected algorithm.
C13_AlgorithmByExactName ==
    /\ last.op = "create_challenge" => ~last.raised
    /\ (IssuedOk /\ truthy(last.options.hashchallenge)) =>
          LastRow.challenge =
              hexdigest(IF last.options.hashchallenge = "sha256" THEN "sha256"
                        ELSE IF last.options.hashchallenge = "sha512" THEN "sha512"
                        ELSE "sha1",
                        LastCleartext)

\* C13 amended: for a caller-supplied challenge and a string hashchallenge, the
\* name is compared without regard to case: 'sha256' selects SHA-256, 'sha512'
\* selects SHA-512 and every other non-empty value SHA-1; issuance succeeds and
\* persists the hex digest of the cleartext under the selected algorithm.
C13_AlgorithmByNameIgnoringCase ==
    /\ last.op = "create_challenge" => ~last.raised
    /\ (IssuedOk /\ truthy(last.options.challenge)
               /\ truthy(last.options.hashchallenge)) =>
          LastRow.challenge =
              hexdigest(IF last.options.hashchallenge \in {"sha256", "SHA256"}
                        THEN "sha256"
                        ELSE IF last.options.hashchallenge \in {"sha512", "SHA512"}
                        THEN "sha512"
                        ELSE "sha1",
                        last.attributes.original_challenge)

C13_Witness ==
    /\ IssuedOk
    /\ last.options.challenge = "12345678"
    /\ last.options.addrandomchallenge = 0
    /\ last.options.hashchallenge = "SHA512"
    /\ LastRow.challenge = hexdigest("sha512", "12345678")

\* C14: with a caller-supplied challenge c, addrandomchallenge = n > 0 and no
\* hashing, the persisted value is c followed by exactly n alphanumeric
\* characters; without addrandomchallenge it is exactly c.
C14_RandomSuffix ==
    (IssuedOk /\ truthy(last.options.challenge)
             /\ ~truthy(last.options.hashchallenge)) =>
        LET c == last.options.challenge
            n == last.options.addrandomchallenge
        IN  IF n > 0
            THEN /\ Len(LastRow.challenge) = Len(c) + n
                 /\ \E s \in get_alphanum_str(n) : LastRow.challenge = c \o s
            ELSE LastRow.challenge = c

C14_Witness ==
    /\ IssuedOk
    /\ last.options.challenge = "12345678"
    /\ last.options.addrandomchallenge = 1
    /\ last.options.hashchallenge = NONE
    /\ LastRow.challenge = "12345678x"

\* C15: check_otp ignores counter and window: its result is that of
\* verify_response(otpval, options['challenge']), and two calls on the same
\* token with the same otpval and challenge that differ only in counter and
\* window return the same result.
C15_CounterAndWindowIgnored ==
    [][last'.op = "check_otp" =>
          /\ LET res == verify_response(token', last'.otpval, last'.challenge)
             IN  last'.raised = res.raised /\ last'.r = res.r
          /\ (/\ last.op = "check_otp"
              /\ token' = token
              /\ last'.otpval = last.otpval
              /\ last'.challenge = last.challenge)
                => (last'.raised = last.raised /\ last'.r = last.r)]_vars

C15_Witness ==
    /\ last.op = "check_otp"
    /\ last.counter = "1"
    /\ last.window = "0"
    /\ ~last.raised
    /\ last.r >= 0

\* C16: neither issuance nor verification changes the token (secret key,
\* ocrasuite metadata, user and realms): create_challenge only adds a Challenge
\* row (none when it raises) and check_otp, hence verify_response, writes
\* nothing.
C16_TokenUntouched ==
    [][/\ last'.op = "create_challenge" =>
             /\ token' = token
             /\ IF last'.raised THEN store' = store
                ELSE /\ Len(store') = Len(store) + 1
                     /\ SubSeq(store', 1, Len(store)) = store
       /\ last'.op = "check_otp" => (token' = token /\ store' = store)]_vars

C16_Witness ==
    /\ last.op = "check_otp"
    /\ ~last.raised
    /\ Len(store) = 1
    /\ last.challenge = store[1].challenge
    /\ token.otpkey = NewToken.otpkey
    /\ token.user = "alice"
    /\ token.realms = {"realmA"}
    /\ get_tokeninfo(token, "ocrasuite") = "OCRA-1:HOTP-SHA256-6:QN08"

\* whether r is column c without its leading and trailing whitespace
IsStripped(r, c) ==
    /\ r = <<>> \/ (r[1] \notin Whitespace /\ r[Len(r)] \notin Whitespace)
    /\ \E i \in 0 .. Len(c), j \in 0 .. Len(c) :
          /\ i + Len(r) + j = Len(c)
          /\ \A n \in 1 .. i : c[n] \in Whitespace
          /\ \A n \in 1 .. Len(r) : c[i + n] = r[n]
          /\ \A n \in 1 .. j : c[i + Len(r) + n] \in Whitespace

\* C17: the map get_import_csv(l) returns never holds 'otplen', whatever the
\* base importer set and however many columns l has; with four or more
\* columns 'ocrasuite' is the fourth column without its surrounding
\* whitespace; with fewer the adapter sets no 'ocrasuite' (the map holds the
\* one of the base importer, if any).
C17_ImportedParams ==
    last.op = "get_import_csv" =>
        /\ "otplen" \notin DOMAIN last.params
        /\ IF Len(last.l) >= 4
           THEN /\ "ocrasuite" \in DOMAIN last.params
                /\ IsStripped(last.params["ocrasuite"], last.l[4])
           ELSE /\ "ocrasuite" \in DOMAIN last.params
                      <=> "ocrasuite" \in DOMAIN last.base
                /\ "ocrasuite" \in DOMAIN last.params
                      => last.params["ocrasuite"] = last.base["ocrasuite"]

C17_Witness ==
    /\ last.op = "get_import_csv"
    /\ Len(last.l) = 4
    /\ last.l[4] = <<" ", "Q", "\t">>
    /\ "otplen" \in DOMAIN last.base
    /\ "ocrasuite" \in DOMAIN last.base
    /\ last.params["ocrasuite"] = <<"Q">>

\* C18: after a successful update the token's ocrasuite metadata is the
\* request's ocrasuite if it was given and the default descriptor if it was
\* not, whatever descriptor was stored before.
C18_UpdateOverwritesSuite ==
    (last.op = "update" /\ ~last.raised) =>
        get_tokeninfo(token, "ocrasuite") =
            IF last.ocrasuite # NONE THEN last.ocrasuite ELSE OCRA_DEFAULT_SUITE

\* an update without ocrasuite on a token that an earlier update had saved
\* (its identifier was set when this update started)
C18_Witness ==
    /\ last.op = "update"
    /\ ~last.raised
    /\ last.ocrasuite = NONE
    /\ last.calls[1].id # 0
    /\ get_tokeninfo(token, "ocrasuite") = OCRA_DEFAULT_SUITE

\* C19: issuance and verification resolve the same descriptor in every token
\* state: a check_otp on a persisted challenge returns -1 or a value >= 0, it
\* does not fail, a token without ocrasuite metadata included.
C19_VerificationResolvesIssuanceSuite ==
    (/\ last.op = "check_otp"
     /\ last.challenge \in {store[i].challenge : i \in DOMAIN store})
        => (~last.raised /\ last.r >= -1)

====
